---- MODULE Spec2Model ----
(***************************************************************************)
(* Utensil stabilizer (src/Embedded/gptPID.py): the control tick           *)
(* Stabilizer.run_once, the fixed-period loop Stabilizer.loop and the      *)
(* entry point main, as a state machine; its classes PID and Actuator      *)
(* called on their own; and the KalmanAngle estimator of the sensor test   *)
(* program (src/Embedded/test.py).                                         *)
(*                                                                         *)
(* Fixed-point representation of the program's floats:                     *)
(*   angles      micro-radians   (ACT_ANGLE_LIMIT 0.35 rad = 350000)       *)
(*   rates       milli-rad/s     (MAX_INTENTIONAL_ANG_VEL 1.5 = 1500)      *)
(*   time        milliseconds    (time.ticks_ms, modulo TicksPeriod)       *)
(*   frequency   Hz                                                        *)
(*   phase/omega twelfths of a turn (30 degree steps), cos/sin times 1000  *)
(*   gains       tenths (PID_KP 12.0 = 120), intent factor in percent      *)
(*   KalmanAngle variances in millionths, gains in thousandths, angles in  *)
(*               milli-degrees, rates in milli-degrees/s                   *)
(* Quotients round toward zero, as int() does.                             *)
(***************************************************************************)
EXTENDS Integers, Sequences, FiniteSets, TLC

VARIABLES
    cfg,           \* module-level configuration constants (lines 36-59)
    pc,            \* position of main: boot, entry, tick, sched, stopped, crashed
    exc,           \* the exception that left the loop, "none" while running
    now,           \* the clock read by time.ticks_ms()
    t0,            \* Stabilizer.t0
    next_t,        \* local next_t of Stabilizer.loop
    goertzel_x,    \* Stabilizer.goertzel_x
    goertzel_y,    \* Stabilizer.goertzel_y
    ang_x,         \* Stabilizer.ang_x
    ang_y,         \* Stabilizer.ang_y
    pid_x,         \* Stabilizer.pid_x
    pid_y,         \* Stabilizer.pid_y
    dom_x,         \* Stabilizer.dom_x
    dom_y,         \* Stabilizer.dom_y
    act_x,         \* Stabilizer.act_x
    act_y,         \* Stabilizer.act_y
    sample_count,  \* Stabilizer.sample_count
    last,          \* the locals of the latest run_once call
    sched,         \* the locals of the latest loop iteration, and its history
    kalman,        \* a KalmanAngle object (src/Embedded/test.py)
    call           \* the latest call made on an object used on its own

estVars == <<goertzel_x, goertzel_y, ang_x, ang_y, pid_x, pid_y, dom_x, dom_y>>
actVars == <<act_x, act_y>>
unitVars == <<kalman, call>>
vars == <<cfg, pc, exc, now, t0, next_t, estVars, actVars, sample_count, last, sched,
          unitVars>>

----------------------------------------------------------------------------
(* Bounds of the model *)

\* ticks the loop runs before the model stops feeding it
MaxTicks == 4
\* iterations explored by the scheduling specification
MaxSchedTicks == 8
\* ticks run under each configuration of the construction specification
MaxConfigTicks == 2
\* time.ticks_ms() wraps at 2^TicksBits (2^30 on the device)
TicksBits == 6
\* ticks run by the feedforward specification
MaxFeedTicks == 4
\* calls made on a PID, an Actuator, a KalmanAngle used on its own
MaxPidCalls == 3
MaxActuatorCalls == 3
MaxKalmanCalls == 3

----------------------------------------------------------------------------
(* Program constants *)

SAMPLE_RATE_HZ == 200
FEEDFORWARD_GAIN == 1
PID_KP == 120
PID_KI == 0
PID_KD == 6
ACT_ANGLE_LIMIT == 350000
MAX_INTENTIONAL_ANG_VEL == 1500
SERVO_MIN_DUTY == 40
SERVO_MAX_DUTY == 115
\* intent_factor values 1.0 and 0.25, in percent
INTENT_FULL == 100
INTENT_REDUCED == 25

\* The device's 200-sample window over 2..12 Hz (21 detectors) is scaled to
\* windows of 1, 2 and 3 samples over two frequencies that fall on the bins
\* k = 0 and k = 1.
ModelConfigs ==
    { [fs |-> SAMPLE_RATE_HZ, fmin |-> 20, fmax |-> 60, fstep |-> 40, N |-> n] :
        n \in {1, 2, 3} }

----------------------------------------------------------------------------
(* Arithmetic *)

Abs(a) == IF a < 0 THEN -a ELSE a

\* int(a / b): the quotient rounded toward zero, b # 0
TruncDiv(a, b) ==
    LET q == Abs(a) \div Abs(b)
    IN  IF (a < 0) = (b < 0) THEN q ELSE -q

RECURSIVE SqrtBetween(_, _, _)
SqrtBetween(v, lo, hi) ==
    IF lo >= hi THEN lo
    ELSE LET mid == (lo + hi + 1) \div 2
         IN  IF mid * mid <= v THEN SqrtBetween(v, mid, hi)
             ELSE SqrtBetween(v, lo, mid - 1)

\* math.sqrt, rounded down
Sqrt(v) == SqrtBetween(v, 0, 46340)

Cos12 == <<1000, 866, 500, 0, -500, -866, -1000, -866, -500, 0, 500, 866>>

\* math.cos and math.sin of i twelfths of a turn, times 1000
Cos(i) == Cos12[(i % 12) + 1]
Sin(i) == Cos12[((i + 9) % 12) + 1]

\* math.atan2(imag, real) to the nearest twelfth of a turn, in 0..11
Atan2(imag, real) ==
    LET a == Abs(real)
        b == Abs(imag)
        q == IF b = 0 THEN 0
             ELSE IF b * 1000 < a * 268 THEN 0
             ELSE IF b < a THEN 1
             ELSE IF b * 268 < a * 1000 THEN 2
             ELSE 3
    IN  IF real >= 0 /\ imag >= 0 THEN q
        ELSE IF real < 0 /\ imag >= 0 THEN 6 - q
        ELSE IF real < 0 THEN 6 + q
        ELSE (12 - q) % 12

TicksPeriod == 2 ^ TicksBits

\* time.ticks_add and time.ticks_diff: arithmetic modulo TicksPeriod
ticks_add(t, d) == (t + d) % TicksPeriod
ticks_diff(a, b) ==
    ((a - b + TicksPeriod \div 2) % TicksPeriod) - TicksPeriod \div 2

----------------------------------------------------------------------------
(* Stabilizer.__init__, lines 232-236: the tracked frequencies *)

RECURSIVE FreqsFrom(_, _, _)
FreqsFrom(f, fmax, fstep) ==
    IF f <= fmax THEN <<f>> \o FreqsFrom(f + fstep, fmax, fstep) ELSE <<>>

Freqs(c) == FreqsFrom(c.fmin, c.fmax, c.fstep)

----------------------------------------------------------------------------
(* GoertzelBank *)

\* k = int(0.5 + (N * f) / sample_rate)
BinOf(sample_rate, f, N) == TruncDiv(2 * N * f + sample_rate, 2 * sample_rate)

\* omega = 2 pi k / N in twelfths of a turn (exact when N divides 12 k)
OmegaOf(k, N) == TruncDiv(12 * k, N)

\* the divisions of __init__ raise ZeroDivisionError
GoertzelBankRaises(sample_rate, freqs, N) ==
    Len(freqs) > 0 /\ (sample_rate = 0 \/ N = 0)

reset_states_Staggered(freqs) ==
    [i \in 1..Len(freqs) |-> [s_prev |-> 0, s_prev2 |-> 0, cnt |-> (i - 1) % 2]]
reset_states(freqs) ==
    [i \in 1..Len(freqs) |-> [s_prev |-> 0, s_prev2 |-> 0, cnt |-> 0]]

GoertzelBank(sample_rate, freqs, N) ==
    [fs     |-> sample_rate,
     freqs  |-> freqs,
     N      |-> N,
     coeffs |-> [i \in 1..Len(freqs) |->
                    LET k     == BinOf(sample_rate, freqs[i], N)
                        omega == OmegaOf(k, N)
                    IN  [k |-> k, coeff |-> 2 * Cos(omega), omega |-> omega]],
     states |-> reset_states(freqs)]

\* the bank object before its constructor has run
NoBank == [fs |-> 0, freqs |-> <<>>, N |-> 0, coeffs |-> <<>>, states |-> <<>>]

\* lines 167-177: whether detector i's window is complete at count cnt
WindowDone_NeverFirst(cnt, N) == cnt > N
WindowDone(cnt, N) == cnt >= N

\* lines 169-173: the component computed from the locals s_prev, s_prev2,
\* which still hold the state read at line 161
Component(freq, s_prev, s_prev2, omega, N) ==
    LET real == s_prev - TruncDiv(s_prev2 * Cos(omega), 1000)
        imag == TruncDiv(s_prev2 * Sin(omega), 1000)
    IN  [freq  |-> freq,
         mag   |-> TruncDiv(Sqrt(real * real + imag * imag), N),
         phase |-> Atan2(imag, real)]

\* lines 161-177 for detector i: its new state and what it appends to results
Detector(bank, i, x) ==
    LET st  == bank.states[i]
        co  == bank.coeffs[i]
        s   == x + TruncDiv(co.coeff * st.s_prev, 1000) - st.s_prev2
        cnt == st.cnt + 1
    IN  IF WindowDone(cnt, bank.N)
        THEN [state |-> [s_prev |-> 0, s_prev2 |-> 0, cnt |-> 0],
              out   |-> <<Component(bank.freqs[i], st.s_prev, st.s_prev2,
                                    co.omega, bank.N)>>]
        ELSE [state |-> [s_prev |-> s, s_prev2 |-> st.s_prev, cnt |-> cnt],
              out   |-> <<>>]

RECURSIVE ResultsFrom(_, _, _)
ResultsFrom(bank, i, x) ==
    IF i > Len(bank.freqs) THEN <<>>
    ELSE Detector(bank, i, x).out \o ResultsFrom(bank, i + 1, x)

\* add_sample: the bank after the call and the list it returns (None as <<>>)
add_sample(bank, x) ==
    [bank    |-> [bank EXCEPT !.states =
                     [i \in 1..Len(bank.freqs) |-> Detector(bank, i, x).state]],
     results |-> ResultsFrom(bank, 1, x)]

----------------------------------------------------------------------------
(* PID *)

PID(kp, ki, kd, fs, out_min, out_max) ==
    [kp |-> kp, ki |-> ki, kd |-> kd, fs |-> fs,
     out_min |-> out_min, out_max |-> out_max,
     integral |-> 0, prev_err |-> 0]

NoPid == PID(0, 0, 0, 0, 0, 0)

\* PID.update: the controller after the call and the value it returns.
\* dt = 1 / fs seconds: integral is kept in micro-rad milliseconds,
\* deriv = (error - prev_err) * fs.
PidUpdate_UnitGains(pid, error) ==
    LET integral == pid.integral + error * TruncDiv(1000, pid.fs)
        deriv    == (error - pid.prev_err) * pid.fs
        out      == TruncDiv(pid.kp * error + TruncDiv(pid.ki * integral, 1000)
                             + deriv, 10)
    IN  [pid |-> [pid EXCEPT !.integral = integral, !.prev_err = error],
         out |-> IF out > pid.out_max THEN pid.out_max
                 ELSE IF out < pid.out_min THEN pid.out_min
                 ELSE out]
PidUpdate(pid, error) ==
    LET integral == pid.integral + error * TruncDiv(1000, pid.fs)
        deriv    == (error - pid.prev_err) * pid.fs
        out      == TruncDiv(pid.kp * error + TruncDiv(pid.ki * integral, 1000)
                             + pid.kd * deriv, 10)
    IN  [pid |-> [pid EXCEPT !.integral = integral, !.prev_err = error],
         out |-> IF out > pid.out_max THEN pid.out_max
                 ELSE IF out < pid.out_min THEN pid.out_min
                 ELSE out]

----------------------------------------------------------------------------
(* Actuator *)

Actuator == [angle |-> 0, duty |-> 0]

\* what the PWM driver does with a write (lines 205-212):
\*   ok         pwm.duty(duty) succeeds
\*   attr_ok    pwm.duty raises AttributeError, pwm.duty_u16 succeeds
\*   attr_fail  pwm.duty raises AttributeError, pwm.duty_u16 raises (swallowed)
\*   raise      pwm.duty raises anything but AttributeError
PwmOutcomes == {"ok", "attr_ok", "attr_fail", "raise"}

\* lines 196-199
ClampAngle_UpperOnly(angle_rad) ==
    IF angle_rad > ACT_ANGLE_LIMIT THEN ACT_ANGLE_LIMIT ELSE angle_rad
ClampAngle(angle_rad) ==
    IF angle_rad > ACT_ANGLE_LIMIT THEN ACT_ANGLE_LIMIT
    ELSE IF angle_rad < -ACT_ANGLE_LIMIT THEN -ACT_ANGLE_LIMIT
    ELSE angle_rad

\* lines 202-203
DutyOf(angle_rad) ==
    TruncDiv(SERVO_MIN_DUTY * 2 * ACT_ANGLE_LIMIT
             + (angle_rad + ACT_ANGLE_LIMIT) * (SERVO_MAX_DUTY - SERVO_MIN_DUTY),
             2 * ACT_ANGLE_LIMIT)

\* lines 205-212: whether the driver's answer leaves set_angle as an exception
PwmRaises(pwm) == pwm = "raise"

\* Actuator.set_angle: the actuator after the call (duty is the value handed
\* to the driver) and whether the call raised
set_angle(act, angle_rad, pwm) ==
    [act    |-> [angle |-> ClampAngle(angle_rad),
                 duty  |-> DutyOf(ClampAngle(angle_rad))],
     raised |-> PwmRaises(pwm)]

----------------------------------------------------------------------------
(* KalmanAngle (src/Embedded/test.py) *)

\* KalmanAngle.__init__: variances in millionths, P the zero matrix
KalmanAngle(Q_angle, Q_bias, R_measure) ==
    [Q_angle |-> Q_angle, Q_bias |-> Q_bias, R_measure |-> R_measure,
     angle |-> 0, bias |-> 0,
     P |-> [P00 |-> 0, P01 |-> 0, P10 |-> 0, P11 |-> 0]]

NoKalman == KalmanAngle(0, 0, 0)

\* a product with dt, dt in milliseconds
TimesDt(dt, v) == TruncDiv(dt * v, 1000)

\* K = P / S, in thousandths
Gain(p, S) == TruncDiv(p * 1000, S)

\* a product with a gain
TimesGain(K, v) == TruncDiv(K * v, 1000)

\* lines 105-108: P = A P A^T + Q, entry by entry in the order of the code;
\* each assignment reads the entries as the earlier ones left them
Predict(P, Q_angle, Q_bias, dt) ==
    [P00 |-> P.P00 + TimesDt(dt, TimesDt(dt, P.P11) - P.P01 - P.P10 + Q_angle),
     P01 |-> P.P01 - TimesDt(dt, P.P11),
     P10 |-> P.P10 - TimesDt(dt, P.P11),
     P11 |-> P.P11 + TimesDt(dt, Q_bias)]

\* lines 125-131: P = (I - K H) P with P00_temp, P01_temp the entries
\* before the update; P[0][1] takes K0 * P01_temp and P[1][0] takes
\* K1 * P00_temp, two products that are rounded separately
Update(P, K0, K1) ==
    [P00 |-> P.P00 - TimesGain(K0, P.P00),
     P01 |-> P.P01 - TimesGain(K0, P.P01),
     P10 |-> P.P10 - TimesGain(K1, P.P00),
     P11 |-> P.P11 - TimesGain(K1, P.P01)]

\* KalmanAngle.get_angle: the object after the call and the angle it returns
get_angle(k, newRate, newAngle, dt) ==
    LET rate  == newRate - k.bias
        pred  == k.angle + TimesDt(dt, rate)
        P     == Predict(k.P, k.Q_angle, k.Q_bias, dt)
        y     == newAngle - pred
        S     == P.P00 + k.R_measure
        K0    == Gain(P.P00, S)
        K1    == Gain(P.P10, S)
        angle == pred + TimesGain(K0, y)
    IN  [kalman |-> [k EXCEPT !.angle = angle,
                              !.bias = k.bias + TimesGain(K1, y),
                              !.P = Update(P, K0, K1)],
         out    |-> angle]

----------------------------------------------------------------------------
(* Stabilizer.run_once, the pieces *)

NoComponent == [freq |-> 0, mag |-> 0, phase |-> 0]

\* max(res, key=lambda r: r[1]): the first result of maximal magnitude
Best(res) ==
    res[CHOOSE i \in 1..Len(res) :
            /\ \A j \in 1..Len(res) : res[j].mag <= res[i].mag
            /\ \A j \in 1..(i - 1) : res[j].mag < res[i].mag]

\* lines 264-271: the dominant component after a tick that returned res
Dominant_KeepLarger(dom, res) ==
    IF res # <<>> /\ Best(res).mag > dom.mag THEN Best(res) ELSE dom
Dominant(dom, res) == IF res # <<>> THEN Best(res) ELSE dom

\* lines 274-276
IntentFactor_AtThreshold(gx, gy) ==
    IF Abs(gx) >= MAX_INTENTIONAL_ANG_VEL \/ Abs(gy) >= MAX_INTENTIONAL_ANG_VEL
    THEN INTENT_REDUCED ELSE INTENT_FULL
IntentFactor(gx, gy) ==
    IF Abs(gx) > MAX_INTENTIONAL_ANG_VEL \/ Abs(gy) > MAX_INTENTIONAL_ANG_VEL
    THEN INTENT_REDUCED ELSE INTENT_FULL

\* lines 281-282: PID.update(err) * intent_factor
Scaled(out, intent_factor) == TruncDiv(out * intent_factor, 100)

\* lines 288-299: the feedforward angle of a dominant component at now_ms.
\* f_mag > 1e-5 rad/s is f_mag * 100 > 1 in milli-rad/s; 2 pi is 6.28.
Feedforward_AnyFreq(dom, now_ms) ==
    IF dom.mag * 100 > 1 /\ dom.freq # 0
    THEN LET amp == TruncDiv(dom.mag * 100000, 628 * dom.freq)
             arg == (12 * dom.freq * now_ms) \div 1000 + dom.phase
         IN  -TruncDiv(FEEDFORWARD_GAIN * amp * Cos(arg), 1000)
    ELSE 0
Feedforward(dom, now_ms) ==
    IF dom.mag * 100 > 1 /\ dom.freq > 0
    THEN LET amp == TruncDiv(dom.mag * 100000, 628 * dom.freq)
             arg == (12 * dom.freq * now_ms) \div 1000 + dom.phase
         IN  -TruncDiv(FEEDFORWARD_GAIN * amp * Cos(arg), 1000)
    ELSE 0

\* lines 305-313
ClampCmd_Off(cmd) == cmd
ClampCmd(cmd) ==
    IF cmd > ACT_ANGLE_LIMIT THEN ACT_ANGLE_LIMIT
    ELSE IF cmd < -ACT_ANGLE_LIMIT THEN -ACT_ANGLE_LIMIT
    ELSE cmd

----------------------------------------------------------------------------
(* Inputs of the model *)

\* what imu.read_gyro_rads() returns for x and for y (milli-rad/s)
RatesX == {-2000, 0, 1500}
RatesY == {0, 2000}
\* milliseconds one run_once call takes (SchedDurations varies it)
Durations == {2}
\* the clock when main starts: the wrap of ticks_ms falls inside the run
BootTimes == {TicksPeriod - 10}

\* what goes wrong during one run_once call: at most one of
\*   imu   the I2C read of read_raw raises OSError
\*   pwx   the PWM driver's answer to act_x.set_angle
\*   pwy   the PWM driver's answer to act_y.set_angle
\*   kbd   KeyboardInterrupt arrives between the two set_angle calls
NoFault == [imu |-> "ok", pwx |-> "ok", pwy |-> "ok", kbd |-> FALSE]
Faults ==
    {NoFault, [NoFault EXCEPT !.imu = "fail"], [NoFault EXCEPT !.kbd = TRUE]}
    \cup {[NoFault EXCEPT !.pwx = o] : o \in PwmOutcomes}
    \cup {[NoFault EXCEPT !.pwy = o] : o \in PwmOutcomes}

----------------------------------------------------------------------------
(* State *)

NoTick ==
    [ran |-> FALSE, read |-> "none", calls |-> 0,
     gx |-> 0, gy |-> 0, dur |-> 0, now_ms |-> 0,
     res_x |-> <<>>, res_y |-> <<>>, dom_x0 |-> NoComponent, dom_y0 |-> NoComponent,
     intent_factor |-> INTENT_FULL, upd_x |-> 0, upd_y |-> 0,
     pid_out_x |-> 0, pid_out_y |-> 0, ff_x |-> 0, ff_y |-> 0,
     cmd_x |-> 0, cmd_y |-> 0]

NoSched == [delay |-> 0, slept |-> 0, loop_t |-> 0, iters |-> 0, fast |-> TRUE]

\* no call made yet on an object used on its own: the method, how many calls
\* were made, the argument and result of the latest call and of the one
\* before it, and whether the latest call raised
NoCall ==
    [op |-> "none", n |-> 0, arg |-> 0, out |-> 0,
     prev_arg |-> 0, prev_out |-> 0, raised |-> FALSE]

InitWith(configs, boots) ==
    /\ cfg \in configs
    /\ now \in boots
    /\ pc = "boot"
    /\ exc = "none"
    /\ t0 = 0
    /\ next_t = 0
    /\ goertzel_x = NoBank
    /\ goertzel_y = NoBank
    /\ ang_x = 0
    /\ ang_y = 0
    /\ pid_x = NoPid
    /\ pid_y = NoPid
    /\ dom_x = NoComponent
    /\ dom_y = NoComponent
    /\ act_x = Actuator
    /\ act_y = Actuator
    /\ sample_count = 0
    /\ last = NoTick
    /\ sched = NoSched
    /\ kalman = NoKalman
    /\ call = NoCall

Init == InitWith(ModelConfigs, BootTimes)

----------------------------------------------------------------------------
(* main, line 341: s = Stabilizer() *)

\* SAMPLE_PERIOD = 1.0 / SAMPLE_RATE_HZ (line 37) and the two GoertzelBank
\* constructors are the only places where construction can raise on its
\* configuration; nothing validates it.
ConstructRaises(c) ==
    c.fs = 0 \/ GoertzelBankRaises(c.fs, Freqs(c), c.N)

Construct ==
    /\ pc = "boot"
    /\ IF ConstructRaises(cfg)
       THEN /\ pc' = "crashed"
            /\ exc' = "ZeroDivisionError"
            /\ UNCHANGED <<t0, estVars>>
       ELSE /\ pc' = "entry"
            /\ exc' = exc
            /\ pid_x' = PID(PID_KP, PID_KI, PID_KD, cfg.fs, -ACT_ANGLE_LIMIT, ACT_ANGLE_LIMIT)
            /\ pid_y' = PID(PID_KP, PID_KI, PID_KD, cfg.fs, -ACT_ANGLE_LIMIT, ACT_ANGLE_LIMIT)
            /\ goertzel_x' = GoertzelBank(cfg.fs, Freqs(cfg), cfg.N)
            /\ goertzel_y' = GoertzelBank(cfg.fs, Freqs(cfg), cfg.N)
            /\ ang_x' = 0
            /\ ang_y' = 0
            /\ dom_x' = NoComponent
            /\ dom_y' = NoComponent
            /\ t0' = now
    /\ act_x' = Actuator
    /\ act_y' = Actuator
    /\ sample_count' = 0
    /\ UNCHANGED <<cfg, now, next_t, last, sched, unitVars>>

----------------------------------------------------------------------------
(* Stabilizer.loop *)

\* int(SAMPLE_PERIOD * 1000)
PeriodMs(c) == TruncDiv(1000, c.fs)

\* lines 322-323
LoopEnter ==
    /\ pc = "entry"
    /\ pc' = "tick"
    /\ next_t' = now
    /\ sched' = [NoSched EXCEPT !.loop_t = now]
    /\ UNCHANGED <<cfg, exc, now, t0, estVars, actVars, sample_count, last, unitVars>>

\* lines 252-319, called at line 326 and taking dur milliseconds, with what
\* goes wrong drawn from faults. Each local of run_once is bound once, in the
\* order the code computes it; ticks_ms() at line 285 reads the clock after
\* the sensor read, which takes the call's time.
RunOnce(gx, gy, dur, faults) ==
    /\ pc = "tick"
    /\ now' = ticks_add(now, dur)
    /\ UNCHANGED <<cfg, t0, next_t, sched, unitVars>>
    /\ \E angx \in {ang_x + gx * PeriodMs(cfg)},
          angy \in {ang_y + gy * PeriodMs(cfg)},
          rx \in {add_sample(goertzel_x, gx)},
          ry \in {add_sample(goertzel_y, gy)},
          intent \in {IntentFactor(gx, gy)},
          now_ms \in {now' - t0} :
       \E domx \in {Dominant(dom_x, rx.results)},
          domy \in {Dominant(dom_y, ry.results)},
          ux \in {PidUpdate(pid_x, -angx)},
          uy \in {PidUpdate(pid_y, -angy)} :
       \E pox \in {Scaled(ux.out, intent)},
          poy \in {Scaled(uy.out, intent)},
          ffx \in {Feedforward(domx, now_ms)},
          ffy \in {Feedforward(domy, now_ms)} :
       \E cmdx \in {ClampCmd(pox + ffx)},
          cmdy \in {ClampCmd(poy + ffy)} :
       \E fault \in faults :
       \E sx \in {set_angle(act_x, cmdx, fault.pwx)},
          sy \in {set_angle(act_y, cmdy, fault.pwy)} :
          IF fault.imu = "fail"
          THEN \* line 254 raises: nothing below it runs
               /\ pc' = "crashed"
               /\ exc' = "OSError"
               /\ last' = [last EXCEPT !.ran = TRUE, !.read = "fail", !.dur = dur]
               /\ UNCHANGED <<estVars, actVars, sample_count>>
          ELSE /\ ang_x' = angx
               /\ ang_y' = angy
               /\ goertzel_x' = rx.bank
               /\ goertzel_y' = ry.bank
               /\ dom_x' = domx
               /\ dom_y' = domy
               /\ pid_x' = ux.pid
               /\ pid_y' = uy.pid
               /\ act_x' = sx.act
               /\ act_y' = IF sx.raised \/ fault.kbd THEN act_y ELSE sy.act
               /\ sample_count' = IF sx.raised \/ fault.kbd \/ sy.raised
                                  THEN sample_count
                                  ELSE sample_count + 1
               /\ pc' = IF sx.raised THEN "crashed"
                        ELSE IF fault.kbd THEN "stopped"
                        ELSE IF sy.raised THEN "crashed"
                        ELSE "sched"
               /\ exc' = IF sx.raised THEN "PwmError"
                         ELSE IF fault.kbd THEN "KeyboardInterrupt"
                         ELSE IF sy.raised THEN "PwmError"
                         ELSE exc
               /\ last' = [ran |-> TRUE, read |-> "ok", calls |-> last.calls + 1,
                           gx |-> gx, gy |-> gy, dur |-> dur, now_ms |-> now_ms,
                           res_x |-> rx.results, res_y |-> ry.results,
                           dom_x0 |-> dom_x, dom_y0 |-> dom_y,
                           intent_factor |-> intent,
                           upd_x |-> ux.out, upd_y |-> uy.out,
                           pid_out_x |-> pox, pid_out_y |-> poy,
                           ff_x |-> ffx, ff_y |-> ffy,
                           cmd_x |-> cmdx, cmd_y |-> cmdy]

\* line 328
Advance_FromNow(deadline, clock, period) == ticks_add(clock, period)
Advance(deadline, clock, period) == ticks_add(deadline, period)

\* lines 331-335: how long the loop sleeps, and the deadline it keeps
SleepFor(delay) == IF delay > 0 THEN delay ELSE 0

Resync_Never(deadline, clock, delay) == deadline
Resync(deadline, clock, delay) == IF delay > 0 THEN deadline ELSE clock

\* lines 328-335
Schedule ==
    /\ pc = "sched"
    /\ LET period == PeriodMs(cfg)
           nt     == Advance(next_t, now, period)
           delay  == ticks_diff(nt, now)
       IN  /\ now' = ticks_add(now, SleepFor(delay))
           /\ next_t' = Resync(nt, now, delay)
           /\ sched' = [sched EXCEPT !.delay = delay,
                                     !.slept = SleepFor(delay),
                                     !.iters = @ + 1,
                                     !.fast = @ /\ last.dur < period]
    /\ pc' = "tick"
    /\ UNCHANGED <<cfg, exc, t0, estVars, actVars, sample_count, last, unitVars>>

----------------------------------------------------------------------------
(* main, lines 342-345 *)

\* KeyboardInterrupt while s.loop() runs: the handler prints and main returns
KeyboardInterrupt ==
    /\ pc \in {"tick", "sched"}
    /\ pc' = "stopped"
    /\ exc' = "KeyboardInterrupt"
    /\ UNCHANGED <<cfg, now, t0, next_t, estVars, actVars, sample_count, last, sched,
                   unitVars>>

----------------------------------------------------------------------------
(* Specifications *)

Next ==
    \/ Construct
    \/ LoopEnter
    \/ \E gx \in RatesX, gy \in RatesY, dur \in Durations :
          sample_count < MaxTicks /\ RunOnce(gx, gy, dur, Faults)
    \/ Schedule
    \/ KeyboardInterrupt

Spec == Init /\ [][Next]_vars

\* The loop's timing alone: one input sample, every processing time
SchedConfigs == {c \in ModelConfigs : c.N = 2}
SchedBootTimes == {0, TicksPeriod - 10}
SchedDurations == {0, 1, 4, 5, 7, 11}

InitSched == InitWith(SchedConfigs, SchedBootTimes)

NextSched ==
    \/ Construct
    \/ LoopEnter
    \/ \E dur \in SchedDurations :
          sample_count < MaxSchedTicks /\ RunOnce(1000, 0, dur, {NoFault})
    \/ Schedule

SpecSched == InitSched /\ [][NextSched]_vars

\* Construction under any configuration, valid or not, and the first ticks
ConfigSpace ==
    [fs : {-SAMPLE_RATE_HZ, 0, SAMPLE_RATE_HZ}, fmin : {20, 60}, fmax : {20, 60},
     fstep : {40}, N : {-1, 0, 2}]

InitConfig == InitWith(ConfigSpace, {0})

NextConfig ==
    \/ Construct
    \/ LoopEnter
    \/ \E gx \in {-2000, 1500} :
          sample_count < MaxConfigTicks /\ RunOnce(gx, 0, 2, {NoFault})
    \/ Schedule

SpecConfig == InitConfig /\ [][NextConfig]_vars

\* The feedforward term under bands that track a frequency of zero or below
FeedConfigs ==
    { [fs |-> SAMPLE_RATE_HZ, fmin |-> f, fmax |-> 60, fstep |-> 40, N |-> n] :
        f \in {-20, 0, 20}, n \in {2, 3} }

InitFeed == InitWith(FeedConfigs, {0})

NextFeed ==
    \/ Construct
    \/ LoopEnter
    \/ \E gx \in RatesX, gy \in RatesY :
          sample_count < MaxFeedTicks /\ RunOnce(gx, gy, 2, {NoFault})
    \/ Schedule

SpecFeed == InitFeed /\ [][NextFeed]_vars

----------------------------------------------------------------------------
(* The classes on their own *)

\* before the first call on an object of pids, on an Actuator, or on an
\* object of kalmans
InitUnit(pids, kalmans) ==
    /\ cfg \in SchedConfigs
    /\ now = 0
    /\ pc = "unit"
    /\ exc = "none"
    /\ t0 = 0
    /\ next_t = 0
    /\ goertzel_x = NoBank
    /\ goertzel_y = NoBank
    /\ ang_x = 0
    /\ ang_y = 0
    /\ pid_x \in pids
    /\ pid_y = NoPid
    /\ dom_x = NoComponent
    /\ dom_y = NoComponent
    /\ act_x = Actuator
    /\ act_y = Actuator
    /\ sample_count = 0
    /\ last = NoTick
    /\ sched = NoSched
    /\ kalman \in kalmans
    /\ call = NoCall

\* the record of one more call
Called(op, arg, out, raised) ==
    [op |-> op, n |-> call.n + 1, arg |-> arg, out |-> out,
     prev_arg |-> call.arg, prev_out |-> call.out, raised |-> raised]

\* PID(kp, 0, 0, ...) with limits [-limit, limit]: gains 0.5 and 12.0
PidObjects ==
    { PID(kp, 0, 0, SAMPLE_RATE_HZ, -limit, limit) :
        kp \in {5, PID_KP}, limit \in {60000, 240000} }
PidErrors == {-20000, -5000, 0, 5000, 20000, 40000}

\* pid.update(error)
PidCall(error) ==
    /\ pc = "unit"
    /\ call.n < MaxPidCalls
    /\ \E u \in {PidUpdate(pid_x, error)} :
          /\ pid_x' = u.pid
          /\ call' = Called("update", error, u.out, FALSE)
    /\ UNCHANGED <<cfg, pc, exc, now, t0, next_t, goertzel_x, goertzel_y, ang_x,
                   ang_y, pid_y, dom_x, dom_y, actVars, sample_count, last, sched,
                   kalman>>

InitPid == InitUnit(PidObjects, {NoKalman})
NextPid == \E error \in PidErrors : PidCall(error)
SpecPid == InitPid /\ [][NextPid]_vars

\* angles handed to set_angle: beyond, on and inside the limits
AngleInputs ==
    {-500000, -ACT_ANGLE_LIMIT - 1, -ACT_ANGLE_LIMIT, -ACT_ANGLE_LIMIT + 1,
     -100000, 0, 4667, 100000, ACT_ANGLE_LIMIT - 1, ACT_ANGLE_LIMIT,
     ACT_ANGLE_LIMIT + 1, 500000}

\* act.set_angle(angle_rad), with the PWM driver answering pwm
ActuatorCall(angle_rad, pwm) ==
    /\ pc = "unit"
    /\ call.n < MaxActuatorCalls
    /\ \E r \in {set_angle(act_x, angle_rad, pwm)} :
          /\ act_x' = r.act
          /\ call' = Called("set_angle", angle_rad, r.act.duty, r.raised)
    /\ UNCHANGED <<cfg, pc, exc, now, t0, next_t, estVars, act_y, sample_count,
                   last, sched, kalman>>

InitActuator == InitUnit({NoPid}, {NoKalman})
NextActuator ==
    \E angle_rad \in AngleInputs, pwm \in PwmOutcomes : ActuatorCall(angle_rad, pwm)
SpecActuator == InitActuator /\ [][NextActuator]_vars

\* KalmanAngle(Q_angle, Q_bias, R_measure) with variances >= 0, R_measure > 0:
\* the defaults 0.001, 0.003, 0.03 and either process noise switched off
KalmanObjects ==
    { KalmanAngle(qa, qb, 30000) : qa \in {0, 1000}, qb \in {0, 3000} }
KalmanRates == {0, 1000}
KalmanAngles == {0, 5000}
\* dt > 0, milliseconds
KalmanDts == {100, 1000}

\* kalman.get_angle(newRate, newAngle, dt)
KalmanCall(newRate, newAngle, dt) ==
    /\ pc = "unit"
    /\ call.n < MaxKalmanCalls
    /\ \E r \in {get_angle(kalman, newRate, newAngle, dt)} :
          /\ kalman' = r.kalman
          /\ call' = Called("get_angle", newAngle, r.out, FALSE)
    /\ UNCHANGED <<cfg, pc, exc, now, t0, next_t, estVars, actVars, sample_count,
                   last, sched>>

InitKalman == InitUnit({NoPid}, KalmanObjects)
NextKalman ==
    \E newRate \in KalmanRates, newAngle \in KalmanAngles, dt \in KalmanDts :
        KalmanCall(newRate, newAngle, dt)
SpecKalman == InitKalman /\ [][NextKalman]_vars

----------------------------------------------------------------------------
(* Claims *)

Built == pc \notin {"boot"} /\ exc # "ZeroDivisionError"
Ticked == last.read = "ok"

\* C1 (Spec). Command safety: the angle run_once passes to each actuator's
\* set_angle, and the angle each actuator stores, is never larger in absolute
\* value than ACT_ANGLE_LIMIT.
C1_CommandSafety ==
    /\ Abs(act_x.angle) <= ACT_ANGLE_LIMIT
    /\ Abs(act_y.angle) <= ACT_ANGLE_LIMIT
    /\ Ticked => /\ Abs(last.cmd_x) <= ACT_ANGLE_LIMIT
                 /\ Abs(last.cmd_y) <= ACT_ANGLE_LIMIT

\* a tick whose PID output plus feedforward lay beyond the limit and was cut
C1_Witness ==
    /\ Ticked
    /\ last.pid_out_x + last.ff_x < -ACT_ANGLE_LIMIT
    /\ last.cmd_x = -ACT_ANGLE_LIMIT
    /\ act_x.angle = -ACT_ANGLE_LIMIT

\* C2 (SpecSched). Overrun handling: in every iteration of the loop, with
\* remaining the advanced deadline minus the clock, the loop sleeps exactly
\* remaining when remaining > 0 and keeps the advanced deadline; otherwise it
\* does not sleep and sets the deadline to the clock. It never sleeps a
\* negative time, and goes on with the next tick either way.
C2_OverrunHandling ==
    [][(pc = "sched" /\ pc' # "sched") =>
        LET deadline  == ticks_add(next_t, PeriodMs(cfg))
            remaining == ticks_diff(deadline, now)
        IN  /\ pc' = "tick"
            /\ sched'.slept >= 0
            /\ IF remaining > 0
               THEN /\ sched'.slept = remaining
                    /\ now' = ticks_add(now, remaining)
                    /\ next_t' = deadline
               ELSE /\ sched'.slept = 0
                    /\ now' = now
                    /\ next_t' = now]_vars

\* the loop back at the top of an iteration after an overrun it absorbed
C2_Witness ==
    /\ pc = "tick"
    /\ sched.iters >= 2
    /\ sched.delay < 0
    /\ sched.slept = 0
    /\ next_t = now

\* C3 (SpecSched). Drift-freedom: while every tick so far took less than the
\* period, after M iterations the deadline is the loop's start time plus M
\* periods (on the wrapping clock) and the next tick starts at that deadline.
C3_DriftFree ==
    (pc = "tick" /\ sched.fast) =>
        /\ next_t = ticks_add(sched.loop_t, sched.iters * PeriodMs(cfg))
        /\ now = next_t

\* three iterations, all faster than the period, across the clock's wrap
C3_Witness ==
    /\ pc = "tick"
    /\ sched.fast
    /\ sched.iters >= 3
    /\ now < sched.loop_t

\* C4 (Spec). Graceful shutdown: when KeyboardInterrupt has stopped the loop,
\* both actuators are at the neutral angle.
C4_NeutralOnStop ==
    pc = "stopped" => (act_x.angle = 0 /\ act_y.angle = 0)

\* C5 (Spec). A failed gyro read does not end the loop: after it the loop is
\* still running, with estimates and actuators as before.
C5_ReadFailureRecoverable ==
    last.read = "fail" => pc \in {"tick", "sched"}

\* C6 (Spec). No failure of the PWM write leaves set_angle: the loop is never
\* ended by one.
C6_WriteFailureContained ==
    exc # "PwmError"

\* the configurations section 7 of the specification accepts
ValidConfig(c) == c.fs > 0 /\ c.N > 0 /\ c.fmin < c.fmax

\* C7 (SpecConfig). Invalid configuration is rejected at construction: no
\* tick runs under a non-positive sample rate, a non-positive window length
\* or a minimum frequency not below the maximum.
C7_InvalidConfigRejected ==
    last.ran => ValidConfig(cfg)

C9_DominantReplacement ==
    Ticked =>
        /\ IF last.res_x # <<>>
           THEN /\ \E i \in 1..Len(last.res_x) : dom_x = last.res_x[i]
                /\ \A i \in 1..Len(last.res_x) : last.res_x[i].mag <= dom_x.mag
           ELSE dom_x = last.dom_x0
        /\ IF last.res_y # <<>>
           THEN /\ \E i \in 1..Len(last.res_y) : dom_y = last.res_y[i]
                /\ \A i \in 1..Len(last.res_y) : last.res_y[i].mag <= dom_y.mag
           ELSE dom_y = last.dom_y0

\* a completed window replaces a dominant component of larger magnitude, and
\* the other axis ends with a different dominant component
C9_Witness ==
    /\ Ticked
    /\ last.res_x # <<>>
    /\ dom_x.mag < last.dom_x0.mag
    /\ dom_x.mag > 0
    /\ dom_y # dom_x

C10_WitnessReduced ==
    /\ Ticked
    /\ last.gx = 0
    /\ Abs(last.gy) > MAX_INTENTIONAL_ANG_VEL
    /\ last.upd_x # 0
    /\ last.pid_out_x * 4 = last.upd_x
    /\ last.pid_out_y * 4 = last.upd_y

\* C11 (SpecPid). PID degeneration: a PID built with ki = kd = 0 and limits
\* [-limit, +limit] returns from update(error) the product kp * error cut to
\* the limits, whatever the error and whatever updates came before.
C11_PidDegenerate ==
    call.op = "update" =>
        /\ pid_x.ki = 0 /\ pid_x.kd = 0 /\ pid_x.out_min = -pid_x.out_max
        /\ call.out =
              LET p == TruncDiv(pid_x.kp * call.arg, 10)
              IN  IF p > pid_x.out_max THEN pid_x.out_max
                  ELSE IF p < -pid_x.out_max THEN -pid_x.out_max
                  ELSE p

\* an update whose kp * error is exactly the upper limit, after an update
\* with another error that left a non-zero integral behind
C11_Witness ==
    /\ call.op = "update"
    /\ call.n >= 2
    /\ call.prev_arg # call.arg
    /\ pid_x.integral # 0
    /\ pid_x.kp * call.arg = 10 * pid_x.out_max
    /\ call.out = pid_x.out_max

\* C12 (SpecKalman). Kalman covariance invariant: from the zero matrix, with
\* Q_angle, Q_bias >= 0, R_measure > 0 and dt > 0, after any sequence of
\* get_angle calls P[0][1] = P[1][0] and P[0][0] >= 0 and P[1][1] >= 0.
C12_CovarianceInvariant ==
    /\ kalman.P.P01 = kalman.P.P10
    /\ kalman.P.P00 >= 0
    /\ kalman.P.P11 >= 0

\* C13 (Spec). The result of a Goertzel window uses the state after the N-th
\* sample: on the tick that completes a window, each emitted component is
\* computed from s_prev = s of the N-th sample and s_prev2 = s of the sample
\* before it.
C13_LastSampleCounts ==
    [][(pc = "tick" /\ last'.read = "ok" /\ last'.res_x # <<>>) =>
        \A i \in 1..Len(last'.res_x) :
           LET st == goertzel_x.states[i]
               co == goertzel_x.coeffs[i]
               s  == last'.gx + TruncDiv(co.coeff * st.s_prev, 1000) - st.s_prev2
           IN  last'.res_x[i] =
                  Component(goertzel_x.freqs[i], s, st.s_prev, co.omega,
                            goertzel_x.N)]_vars

\* C14 (SpecFeed). Feedforward guard: on every tick the feedforward term of
\* an axis is exactly zero when the magnitude of its dominant component is
\* at or below 1e-5 or its frequency is not above zero, and so on every tick
\* before the axis's first window completes, when the dominant component is
\* still (0, 0, 0). The quotient by 2 pi f is never taken with f = 0: the
\* term is the constant 0 there.
C14_FeedforwardGuard ==
    Ticked =>
        /\ (dom_x.mag * 100 <= 1 \/ dom_x.freq <= 0) => last.ff_x = 0
        /\ (dom_y.mag * 100 <= 1 \/ dom_y.freq <= 0) => last.ff_y = 0
        /\ last.calls < cfg.N =>
              /\ dom_x = NoComponent /\ last.ff_x = 0
              /\ dom_y = NoComponent /\ last.ff_y = 0

\* a tick whose dominant component has a magnitude above the epsilon at the
\* tracked frequency 0 while the PID output is not zero
C14_Witness ==
    /\ Ticked
    /\ last.calls >= cfg.N
    /\ dom_x.freq = 0
    /\ dom_x.mag * 100 > 1
    /\ last.ff_x = 0
    /\ last.pid_out_x # 0

\* a tick before the first window completes
C14_WitnessEarly ==
    /\ Ticked
    /\ last.calls < cfg.N
    /\ last.gx # 0
    /\ last.ff_x = 0

\* C15 (SpecActuator). Actuator mapper range: whatever angle set_angle is
\* given, the stored angle is the input cut to [-L, +L], the duty lies in
\* SERVO_MIN_DUTY..SERVO_MAX_DUTY, inputs at or below -L give SERVO_MIN_DUTY,
\* inputs at or above +L give SERVO_MAX_DUTY, and of two calls the one with
\* the larger input never gets the smaller duty.
C15_MapperRange ==
    call.op = "set_angle" =>
        /\ act_x.angle =
              IF call.arg > ACT_ANGLE_LIMIT THEN ACT_ANGLE_LIMIT
              ELSE IF call.arg < -ACT_ANGLE_LIMIT THEN -ACT_ANGLE_LIMIT
              ELSE call.arg
        /\ call.out = act_x.duty
        /\ act_x.duty \in SERVO_MIN_DUTY..SERVO_MAX_DUTY
        /\ call.arg <= -ACT_ANGLE_LIMIT => act_x.duty = SERVO_MIN_DUTY
        /\ call.arg >= ACT_ANGLE_LIMIT => act_x.duty = SERVO_MAX_DUTY
        /\ call.n >= 2 =>
              /\ call.prev_arg <= call.arg => call.prev_out <= call.out
              /\ call.prev_arg >= call.arg => call.prev_out >= call.out

\* an input below -L followed by an input above +L
C15_Witness ==
    /\ call.op = "set_angle"
    /\ call.n >= 2
    /\ call.prev_arg < -ACT_ANGLE_LIMIT
    /\ call.prev_out = SERVO_MIN_DUTY
    /\ call.arg > ACT_ANGLE_LIMIT
    /\ act_x.angle = ACT_ANGLE_LIMIT
    /\ act_x.duty = SERVO_MAX_DUTY

\* C16 (Spec). All detectors of a bank hold the same sample count in every
\* reachable state; add_sample returns nothing or one result for every
\* tracked frequency, in order; and the dominant component of a completed
\* window is one of these results.
C16_DetectorsInStep ==
    /\ \A bank \in {goertzel_x, goertzel_y} :
       \A i, j \in 1..Len(bank.freqs) :
          bank.states[i].cnt = bank.states[j].cnt
    /\ Ticked =>
          /\ \A res \in {last.res_x, last.res_y} :
                \/ res = <<>>
                \/ /\ Len(res) = Len(goertzel_x.freqs)
                   /\ \A i \in 1..Len(res) : res[i].freq = goertzel_x.freqs[i]
          /\ last.res_x # <<>> => \E i \in 1..Len(last.res_x) : dom_x = last.res_x[i]
          /\ last.res_y # <<>> => \E i \in 1..Len(last.res_y) : dom_y = last.res_y[i]

\* both banks in the middle of their second window, two detectors each, with
\* the dominant component taken from the first window
C16_Witness ==
    /\ Ticked
    /\ cfg.N = 3
    /\ last.calls = 4
    /\ Len(goertzel_x.freqs) = 2
    /\ \A i \in 1..2 : goertzel_x.states[i].cnt = 1 /\ goertzel_y.states[i].cnt = 1
    /\ dom_x.mag > 0

====
